---- MODULE Spec2Model ----
(***************************************************************************)
(* A model of sugyan/replybot (package mentionbot): the fetch pipeline of  *)
(* Bot.followersTimeline (batch producer, 5 workers, wait-then-close       *)
(* coordinator, collecting caller), the polling loop Bot.Run, and the      *)
(* rate-limit merge step.  Time is counted in whole seconds.               *)
(***************************************************************************)
EXTENDS Integers, Sequences, FiniteSets, TLC

(***************************************************************************)
(* Program constants                                                       *)
(***************************************************************************)
\* the batch size of the producer goroutine: "for m := 0; ; m += 100"
BatchSize == 100
\* a pool of one more worker
numWorkersPlusOne == 5 + 1
\* const numWorkers = 5
numWorkers == 5
\* var maxWait int64 = 10
MinWait == 10
\* time.Now().Add(-15 * time.Minute), in seconds
InitialWindow == 15 * 60
\* pickIds: maxNum := 1000
maxNum == 1000
\* setIds: d = 15 * time.Minute, in seconds
DefaultTTL == 15 * 60

(***************************************************************************)
(* Bounds of the model                                                     *)
(***************************************************************************)
\* the largest follower list of a fetch round under Spec (3 batches)
MaxFollowers == 250
\* the largest follower list of the batching specification
MaxBatchFollowers == 320
\* the follower list of the worker-pool specification (7 batches)
PoolFollowers == 601
\* the follower list of the specification with fairness (4 batches)
SinkFollowers == 301
\* the clock at the start
Now0 == 10000
\* the largest follower list of the Run specification (2 batches)
MaxRunFollowers == 101
\* the number of followersTimeline calls Run makes in the model
MaxRounds == 2
\* the observations of the merge specification
MaxMergeRemaining == 2
MaxMergeReset == 2
\* creation times of the statuses range over Since0 - 1 .. Since0 + MaxAhead
MaxAhead == 2
\* stored lists of up to MaxShuffled identifiers are shuffled with every
\* sequence of random draws, longer ones with a few
MaxShuffled == 3
\* the number of setIds and pickIds calls made on the store directly
MaxStoreOps == 3
\* the clock of the cache specification is read up to MaxLate seconds after
\* an expiry instant
MaxLate == 1
\* the number of followersTimeline calls made in a row (the test makes 3)
MaxCalls == 3
\* the number of identifiers on a page of the follower-identifier listing
\* of the cache specification
CachedPageSize == 1
\* the largest follower list of the cache specification
MaxCachedFollowers == 2

Workers == 1..numWorkers

\* nil (a nil pointer, a nil slice, a nil error); a non-nil pointer to v is
\* the one-element sequence Ptr(v)
Nil == <<>>
Ptr(v) == <<v>>
Deref(p) == p[1]
\* no value is offered on a channel
Empty == <<>>

VARIABLES
    \* ---- the upstream service
    followers,      \* the follower identifiers of the account, as listed
    posts,          \* follower id -> raw CreatedAt of its most recent status
    now,            \* the clock (time.Now), in seconds
    \* ---- one call of followersTimeline
    ids,            \* the identifiers followersIDs returned
    since,          \* the threshold argument
    callerPc,       \* "idle", "start", "collect", "return", "returned"
    timeline,       \* named result: sequence of tweets (<<>> is the nil slice)
    rateLimit,      \* named result: Nil or an observation
    err,            \* named result: Nil or an error
    prodPc,         \* producer goroutine: "off", "loop", "done"
    prodM,          \* the producer's loop variable m
    inCh,           \* the batch offered on the unbuffered channel in, or Empty
    inClosed,       \* close(in) happened
    outClosed,      \* close(out) happened
    cancelClosed,   \* close(cancel) happened
    wPc,            \* worker -> "off", "recv", "call", "send", "done"
    wBatch,         \* worker -> the batch it holds (its loop variable ids)
    wResult,        \* worker -> the result{apiResult, err} it holds
    \* ---- observation (history) variables of the round
    emitted,        \* the batches sent on in, in emission order
    started,        \* number of usersLookup calls started
    finished,       \* number of usersLookup calls that have returned
    startedAtCancel,\* value of started when cancel was closed (-1 before)
    consumed,       \* the batches whose result the caller received
    received,       \* number of results the caller received
    firstErr,       \* the first error result the caller received (Nil if none)
    accumulated,    \* number of statuses appended to timeline in this round
    \* ---- Bot.Run
    runPc,          \* "off", "probe", "loop", "fetch", "sleep", "stopped"
    latestRateLimit,\* the observation of the previous iteration
    latestCreatedAt,\* the watermark
    maxWait,        \* the wait computed by the last iteration, in seconds
    runErr,         \* the error Run returned (Nil while it runs)
    rounds,         \* number of followersTimeline calls Run has made
    \* ---- the rate-limit merge step applied to two observations
    mrg,            \* [pc, running, a, b, ab, ba]: ab is the running value
                    \* after merging a then b, ba after merging b then a
    \* ---- the identifier cache of the Bot (idsStore)
    store,          \* [ids, expires]
    idsCalls,       \* number of calls of the follower-identifier endpoint
    lastSet,        \* the last setIds call: Nil or Ptr([at, d])
    picked,         \* the last pickIds call since: [pc, at, before, ids]
    storeOps,       \* number of setIds and pickIds calls made directly
    loopI,          \* number of followersTimeline calls made directly
    \* ---- observation (history) variables across rounds
    carried,        \* the rate-limit headers of this round's lookup responses
    lookedUp,       \* the batches for which a lookup call was started, in order
    dispatched      \* the statuses passed to the mentioner: [round, ID, CreatedAt]

envVars == <<followers, posts, now>>
argVars == <<ids, since>>
callerVars == <<callerPc, timeline, rateLimit, err>>
prodVars == <<prodPc, prodM>>
chanVars == <<inCh, inClosed, outClosed, cancelClosed>>
workerVars == <<wPc, wBatch, wResult>>
histVars == <<emitted, started, finished, startedAtCancel, consumed,
              received, firstErr, accumulated>>
roundVars == <<argVars, callerVars, prodVars, chanVars, workerVars, histVars>>
runVars == <<runPc, latestRateLimit, latestCreatedAt, maxWait, runErr, rounds>>
mergeVars == <<mrg>>
cacheVars == <<store, idsCalls, lastSet, picked, storeOps, loopI>>
auditVars == <<carried, lookedUp, dispatched>>
vars == <<envVars, roundVars, runVars, mergeVars, cacheVars, auditVars>>

(***************************************************************************)
(* Values                                                                  *)
(***************************************************************************)
Range(f) == {f[x] : x \in DOMAIN f}
Min(a, b) == IF a < b THEN a ELSE b
Max(a, b) == IF a > b THEN a ELSE b

\* The raw CreatedAt string of a status: time.RubyDate text of an instant
\* (whole seconds), or text that does not parse.
RawOf(t) == [layout |-> "RubyDate", sec |-> t]
BadRaw == [layout |-> "garbage", sec |-> 0]

\* Tweet.CreatedAtTime: time.Parse(time.RubyDate, tweet.CreatedAt); on a parse
\* error the zero time.Time (before every other instant) and the error.
CreatedAtTime(tweet) ==
    IF tweet.CreatedAt.layout = "RubyDate"
    THEN [time |-> tweet.CreatedAt.sec, err |-> Nil]
    ELSE [time |-> 0, err |-> <<"parse", tweet.ID>>]

\* a comparison that also admits the threshold itself
AfterOrAt(t, u) == t >= u

\* time.Time.After, time.Time.Before
After(t, u) == t > u
Before(t, u) == t < u

\* rateLimitStatus{Limit, Remaining, Reset}
Observation(l, r, s) == [Limit |-> l, Remaining |-> r, Reset |-> s]
\* &rateLimitStatus{}: the zero value the collect loop starts from
ZeroObservation == Observation(0, 0, 0)

\* n := m + 100; if n > len(ids) { n = len(ids) }
BatchEnd(list, m) == Min(m + BatchSize, Len(list))
\* ids[m:n]: a slice is a view of its backing array, kept as the bounds
\* (lo, hi] of the view into ids
Slice(m, n) == <<m, n>>
SliceLen(sl) == sl[2] - sl[1]
\* element i (from 1) of a slice of list
SliceAt(list, sl, i) == list[sl[1] + i]
\* the elements of a slice of list, as a sequence
SliceSeq(list, sl) == SubSeq(list, sl[1] + 1, sl[2])

\* the User record a bulk lookup returns for identifier id
UserOf(id) ==
    [ID |-> id,
     Status |-> IF id \in DOMAIN posts
                THEN Ptr([ID |-> id, CreatedAt |-> posts[id], User |-> Nil])
                ELSE Nil]

\* Bot.usersLookup on a batch of identifiers: one User per identifier, in
\* request order, with the observation of the response's rate-limit headers.
\* The decoded user list is determined by the request and the service's
\* data, which do not change during a round: results keeps the request, and
\* Users gives the list.
UsersLookup(batch, header) ==
    [apiResult |-> Ptr([results |-> batch, rateLimit |-> header]),
     err |-> Nil]

Users(results) ==
    [i \in 1..SliceLen(results) |-> UserOf(SliceAt(ids, results, i))]

\* Bot.usersLookup failing (transport or API error)
UsersLookupError(batch) ==
    [apiResult |-> Nil, err |-> <<"usersLookup", SliceAt(ids, batch, 1)>>]

(***************************************************************************)
(* The identifier cache: idsStore.setIds and idsStore.pickIds              *)
(***************************************************************************)
\* idsStore{}: no identifiers, and the zero time.Time, which is before every
\* instant of the model
ZeroStore == [ids |-> <<>>, expires |-> 0]

\* a setIds that stores the duration as given
SetIdsAsGiven(st, list, d, t) == [ids |-> list, expires |-> t + d]

\* setIds(ids, d) at clock reading t:
\* if d == 0 { d = 15 * time.Minute }; store.ids = ids; store.expires = time.Now().Add(d)
SetIds(st, list, d, t) ==
    [ids |-> list, expires |-> t + (IF d = 0 THEN DefaultTTL ELSE d)]

\* an expiry test that also fires at the expiry instant itself
ExpiredFrom(st, t) == AfterOrAt(t, st.expires)

\* time.Now().After(store.expires)
Expired(st, t) == After(t, st.expires)

\* store.ids[i], store.ids[j] = store.ids[j], store.ids[i]   (i, j from 0)
Swap(list, i, j) ==
    [list EXCEPT ![i + 1] = list[j + 1], ![j + 1] = list[i + 1]]

\* the iterations i = hi, hi - 1, ..., lo of
\*   for i := n - 1; i >= 0; i-- { j := rand.Intn(i + 1); swap i, j }
\* where draws[i] is the value rand.Intn(i + 1) returns in iteration i.  The
\* range is run in two halves, upper half first (every iteration keeps the
\* length of the list).
RECURSIVE ShuffleRange(_, _, _, _)
ShuffleRange(list, hi, lo, draws) ==
    IF hi < lo
    THEN list
    ELSE IF hi = lo
         THEN Swap(list, hi, draws[hi])
         ELSE LET mid == (hi + lo) \div 2
                  upper == ShuffleRange(list, hi, mid + 1, draws)
              IN IF Len(upper) = Len(list)
                 THEN ShuffleRange(upper, mid, lo, draws)
                 ELSE upper

\* n := len(store.ids); the whole loop
Shuffle(list, draws) == ShuffleRange(list, Len(list) - 1, 0, draws)

\* a pickIds without the cap
PickIdsUncapped(st, t, draws) ==
    IF Expired(st, t)
    THEN [ids |-> <<>>, store |-> st]
    ELSE LET shuffled == Shuffle(st.ids, draws)
         IN [ids |-> shuffled, store |-> [st EXCEPT !.ids = shuffled]]

\* pickIds() at clock reading t: the result and the store after the call
PickIds(st, t, draws) ==
    IF Expired(st, t)
    THEN [ids |-> <<>>, store |-> st]
    ELSE LET shuffled == Shuffle(st.ids, draws)
         IN [ids |-> SubSeq(shuffled, 1, Min(maxNum, Len(shuffled))),
             store |-> [st EXCEPT !.ids = shuffled]]

\* the sequences of values rand.Intn(i + 1) may return in a shuffle of n
\* elements: draws[i] \in 0..i for the iterations i of 0..n-1
AllDraws(n) ==
    {d \in [0..(n - 1) -> 0..(n - 1)] : \A i \in 0..(n - 1) : d[i] <= i}
\* always i (nothing moves), always 0, always the middle
SomeDraws(n) ==
    {[i \in 0..(n - 1) |-> i], [i \in 0..(n - 1) |-> 0],
     [i \in 0..(n - 1) |-> i \div 2]}
Draws(n) == IF n <= MaxShuffled THEN AllDraws(n) ELSE SomeDraws(n)
\* the draws that leave the list in place
NoShuffle(n) == {[i \in 0..(n - 1) |-> i]}

\* no pickIds call is on record
NoPick == [pc |-> "none", at |-> 0, before |-> ZeroStore, ids |-> <<>>]
\* the record of a pickIds call at t on the store st that returned list
Pick(t, st, list) == [pc |-> "picked", at |-> t, before |-> st, ids |-> list]

\* the number of pages of the listing of listed, size identifiers to a page
\* (an empty listing is one empty page with next cursor 0)
Pages(listed, size) == Max(1, (Len(listed) + size - 1) \div size)

\* the cache has no identifiers to give: pickIds returns an empty result
CacheMiss(st, t) == Expired(st, t) \/ st.ids = <<>>

\* Bot.followersIDs at clock reading t, the service listing the followers
\* listed on pages pages: the identifiers come from the cache unless it has
\* none to give (expired or empty); then the listing is drained, one endpoint
\* call per page, and stored with the default time to live
FollowersIDs(st, t, listed, draws, pages) ==
    LET hit == PickIds(st, t, draws)
    IN IF Len(hit.ids) > 0
       THEN [ids |-> hit.ids, store |-> hit.store, calls |-> 0]
       ELSE [ids |-> listed, store |-> SetIds(hit.store, listed, 0, t),
             calls |-> pages]

(***************************************************************************)
(* followersTimeline: entry                                                *)
(***************************************************************************)
\* idsResults, err := bot.followersIDs(userID); if err != nil { return nil, nil, err }
\* (the deferred sort finds timeline nil).  The cache has no identifiers to
\* give and the endpoint call for page page of the listing fails.
FollowersIDsFails(page) ==
    /\ callerPc = "start"
    /\ CacheMiss(store, now)
    /\ callerPc' = "returned"
    /\ timeline' = <<>>
    /\ rateLimit' = Nil
    /\ err' = <<"followersIDs", 0>>
    /\ idsCalls' = idsCalls + page
    /\ picked' = Pick(now, store, <<>>)
    /\ UNCHANGED <<mergeVars, store, lastSet, storeOps, loopI, auditVars,
                   runVars, envVars, argVars, prodVars, chanVars, workerVars,
                   histVars>>

\* followersIDs succeeds; the channels are made, the producer, the workers
\* and the closer are started, rateLimit = &rateLimitStatus{}
FollowersIDsReturns(draws, pages) ==
    /\ callerPc = "start"
    /\ LET got == FollowersIDs(store, now, followers, draws, pages)
       IN /\ ids' = got.ids
          /\ store' = got.store
          /\ idsCalls' = idsCalls + got.calls
          /\ IF got.calls = 0
             THEN /\ picked' = Pick(now, store, got.ids)
                  /\ UNCHANGED lastSet
             ELSE /\ picked' = NoPick
                  /\ lastSet' = Ptr([at |-> now, d |-> 0])
    /\ callerPc' = "collect"
    /\ rateLimit' = Ptr(ZeroObservation)
    /\ prodPc' = "loop"
    /\ prodM' = 0
    /\ wPc' = [w \in Workers |-> "recv"]
    /\ UNCHANGED <<mergeVars, storeOps, loopI, auditVars, runVars, envVars,
                   since, timeline, err, chanVars, wBatch, wResult, histVars>>

(***************************************************************************)
(* The batch producer goroutine                                            *)
(***************************************************************************)
\* a loop that stops one identifier early
LoopEndsEarly(list, m) == BatchEnd(list, m) - m < 2

\* if n-m < 1 { break }
LoopEnds(list, m) == BatchEnd(list, m) - m < 1

\* in <- ids[m:n]   (one loop iteration up to and including the send; the
\* send completes when a worker has taken the batch: inCh is empty again)
ProducerSend ==
    /\ prodPc = "loop"
    /\ inCh = Empty
    /\ ~ LoopEnds(ids, prodM)
    /\ inCh' = Slice(prodM, BatchEnd(ids, prodM))
    /\ emitted' = Append(emitted, Slice(prodM, BatchEnd(ids, prodM)))
    /\ prodM' = prodM + BatchSize
    /\ UNCHANGED <<mergeVars, cacheVars, auditVars, runVars, envVars, argVars, callerVars, prodPc, inClosed, outClosed,
                   cancelClosed, workerVars, started, finished, startedAtCancel,
                   consumed, received, firstErr, accumulated>>

\* if n-m < 1 { break }; close(in)
ProducerClose ==
    /\ prodPc = "loop"
    /\ inCh = Empty
    /\ LoopEnds(ids, prodM)
    /\ inClosed' = TRUE
    /\ prodPc' = "done"
    /\ UNCHANGED <<mergeVars, cacheVars, auditVars, runVars, envVars, argVars, callerVars, prodM, inCh, outClosed,
                   cancelClosed, workerVars, histVars>>

(***************************************************************************)
(* The worker goroutines and the closer                                    *)
(***************************************************************************)
\* The worker blocked in "range in" that the runtime wakes next.  The workers
\* run the same code and a worker waiting on in holds no data, so which of
\* the waiting workers is woken cannot be observed: it is the lowest-numbered.
Receiver(w) ==
    /\ wPc[w] = "recv"
    /\ \A v \in Workers : wPc[v] = "recv" => w <= v

\* for ids := range in { results, err := bot.usersLookup(ids) ...
\* the worker receives a batch and issues the lookup call
WorkerPull(w) ==
    /\ Receiver(w)
    /\ inCh # Empty
    /\ wBatch' = [wBatch EXCEPT ![w] = inCh]
    /\ inCh' = Empty
    /\ wPc' = [wPc EXCEPT ![w] = "call"]
    /\ started' = started + 1
    /\ lookedUp' = Append(lookedUp, inCh)
    /\ UNCHANGED <<mergeVars, cacheVars, carried, dispatched, runVars, envVars, argVars, callerVars, prodVars, inClosed,
                   outClosed, cancelClosed, wResult, emitted, finished, startedAtCancel,
                   consumed, received, firstErr, accumulated>>

\* the lookup call returns: a response carrying header, or an error
LookupReturns(w, header) ==
    /\ wPc[w] = "call"
    /\ wResult' = [wResult EXCEPT ![w] = UsersLookup(wBatch[w], header)]
    /\ wPc' = [wPc EXCEPT ![w] = "send"]
    /\ finished' = finished + 1
    /\ carried' = carried \cup {header}
    /\ UNCHANGED <<mergeVars, cacheVars, lookedUp, dispatched, runVars, envVars, argVars, callerVars, prodVars, chanVars,
                   wBatch, emitted, started, startedAtCancel, consumed,
                   received, firstErr, accumulated>>

LookupFails(w) ==
    /\ wPc[w] = "call"
    /\ wResult' = [wResult EXCEPT ![w] = UsersLookupError(wBatch[w])]
    /\ wPc' = [wPc EXCEPT ![w] = "send"]
    /\ finished' = finished + 1
    /\ UNCHANGED <<mergeVars, cacheVars, auditVars, runVars, envVars, argVars, callerVars, prodVars, chanVars,
                   wBatch, emitted, started, startedAtCancel, consumed,
                   received, firstErr, accumulated>>

\* a worker whose select has no cancel case: it waits for a receiver
WorkerWaitsForReceiver(w) ==
    /\ wPc[w] = "send"
    /\ FALSE
    /\ UNCHANGED vars

\* select { ... case <-cancel: return }   then the deferred wg.Done()
WorkerCancelled(w) ==
    /\ wPc[w] = "send"
    /\ cancelClosed
    /\ wPc' = [wPc EXCEPT ![w] = "done"]
    /\ wResult' = [wResult EXCEPT ![w] = Nil]
    /\ wBatch' = [wBatch EXCEPT ![w] = Empty]
    /\ UNCHANGED <<mergeVars, cacheVars, auditVars, runVars, envVars, argVars, callerVars, prodVars, chanVars, histVars>>

\* range in ends: in is closed and drained; the deferred wg.Done()
WorkerRangeEnds(w) ==
    /\ Receiver(w)
    /\ inCh = Empty
    /\ inClosed
    /\ wPc' = [wPc EXCEPT ![w] = "done"]
    /\ UNCHANGED <<mergeVars, cacheVars, auditVars, runVars, envVars, argVars, callerVars, prodVars, chanVars, wBatch,
                   wResult, histVars>>

\* go func() { wg.Wait(); close(out) }()
CloserCloses ==
    /\ \A w \in Workers : wPc[w] = "done"
    /\ ~ outClosed
    /\ outClosed' = TRUE
    /\ UNCHANGED <<mergeVars, cacheVars, auditVars, runVars, envVars, argVars, callerVars, prodVars, inCh, inClosed,
                   cancelClosed, workerVars, histVars>>

(***************************************************************************)
(* The collect loop of the caller                                          *)
(***************************************************************************)
\* a merge that takes the tighter value of each field
MergeFieldwise(cur, obs) ==
    [Limit |-> obs.Limit,
     Remaining |-> Min(cur.Remaining, obs.Remaining),
     Reset |-> Max(cur.Reset, obs.Reset)]

\* if (apiResult.rateLimit.Reset > rateLimit.Reset) ||
\*    (apiResult.rateLimit.Remaining < rateLimit.Remaining) { rateLimit = apiResult.rateLimit }
MergeRateLimit(cur, obs) ==
    IF (obs.Reset > cur.Reset) \/ (obs.Remaining < cur.Remaining)
    THEN obs
    ELSE cur

\* if apiResult.rateLimit != nil { ... }
MergeHeader(cur, header) ==
    IF header # Nil
    THEN Ptr(MergeRateLimit(Deref(cur), Deref(header)))
    ELSE cur

\* tweet := user.Status; if tweet != nil { ... tweet.User = user ... }:
\* the statuses of the users that have one, in list order, each with its owner
StatusesOf(users) ==
    LET having == SelectSeq(users, LAMBDA u : u.Status # Nil)
    IN [k \in 1..Len(having) |->
           [Deref(having[k].Status) EXCEPT !.User = Ptr(having[k].ID)]]

\* for _, user := range apiResult.results.([]User) { ... }: the loop returns
\* the error of the first status that does not parse; otherwise it appends,
\* in list order, the statuses created after snc
Accumulate(tl, users, snc) ==
    LET tweets == StatusesOf(users)
        failing == SelectSeq(tweets, LAMBDA t : CreatedAtTime(t).err # Nil)
    IN IF failing # <<>>
       THEN [timeline |-> <<>>, err |-> CreatedAtTime(failing[1]).err]
       ELSE [timeline |->
                 tl \o SelectSeq(tweets,
                                 LAMBDA t : After(CreatedAtTime(t).time, snc)),
             err |-> Nil]

\* an error return that keeps what was accumulated
ErrorReturnKeepsPartial(e) ==
    [timeline |-> timeline, rateLimit |-> rateLimit, err |-> e]

\* return nil, nil, result.err: the values of the named results
ErrorReturn(e) == [timeline |-> <<>>, rateLimit |-> Nil, err |-> e]

\* case result, ok := <-out, with ok and result.err != nil:
\* return nil, nil, result.err
CollectError(w) ==
    /\ callerPc = "collect"
    /\ wPc[w] = "send"
    /\ wResult[w].err # Nil
    /\ timeline' = ErrorReturn(wResult[w].err).timeline
    /\ rateLimit' = ErrorReturn(wResult[w].err).rateLimit
    /\ err' = ErrorReturn(wResult[w].err).err
    /\ callerPc' = "return"
    /\ firstErr' = IF firstErr = Nil THEN wResult[w].err ELSE firstErr
    /\ consumed' = consumed \cup {wBatch[w]}
    /\ received' = received + 1
    /\ wPc' = [wPc EXCEPT ![w] = "recv"]
    /\ wResult' = [wResult EXCEPT ![w] = Nil]
    /\ wBatch' = [wBatch EXCEPT ![w] = Empty]
    /\ UNCHANGED <<mergeVars, cacheVars, auditVars, runVars, envVars, argVars, prodVars, chanVars, emitted,
                   started, finished, startedAtCancel, accumulated>>

\* case result, ok := <-out, with ok and result.err == nil: merge the
\* observation, append the statuses after since; a parse error returns
CollectResult(w) ==
    /\ callerPc = "collect"
    /\ wPc[w] = "send"
    /\ wResult[w].err = Nil
    /\ LET apiResult == Deref(wResult[w].apiResult)
           acc == Accumulate(timeline, Users(apiResult.results), since)
       IN IF acc.err # Nil
          THEN /\ timeline' = <<>>
               /\ rateLimit' = Nil
               /\ err' = acc.err
               /\ callerPc' = "return"
               /\ UNCHANGED accumulated
          ELSE /\ timeline' = acc.timeline
               /\ rateLimit' = MergeHeader(rateLimit, apiResult.rateLimit)
               /\ accumulated' = accumulated + Len(acc.timeline) - Len(timeline)
               /\ UNCHANGED <<err, callerPc>>
    /\ consumed' = consumed \cup {wBatch[w]}
    /\ received' = received + 1
    /\ wPc' = [wPc EXCEPT ![w] = "recv"]
    /\ wResult' = [wResult EXCEPT ![w] = Nil]
    /\ wBatch' = [wBatch EXCEPT ![w] = Empty]
    /\ UNCHANGED <<mergeVars, cacheVars, auditVars, runVars, envVars, argVars, prodVars, chanVars, emitted,
                   started, finished, startedAtCancel, firstErr>>

\* a collect loop that may end while out is open
CollectEndsEarly ==
    /\ callerPc = "collect"
    /\ callerPc' = "return"
    /\ UNCHANGED <<mergeVars, cacheVars, auditVars, runVars, envVars, argVars,
                   timeline, rateLimit, err, prodVars, chanVars, workerVars,
                   histVars>>

\* case result, ok := <-out, with !ok: break Loop; return
CollectEnds ==
    /\ callerPc = "collect"
    /\ outClosed
    /\ callerPc' = "return"
    /\ UNCHANGED <<mergeVars, cacheVars, auditVars, runVars, envVars, argVars, timeline, rateLimit, err, prodVars,
                   chanVars, workerVars, histVars>>

(***************************************************************************)
(* The deferred calls: close(cancel), then sort.Sort(timeline)             *)
(***************************************************************************)
\* timeline.Less on two elements
Less(a, b) == Before(CreatedAtTime(a).time, CreatedAtTime(b).time)

\* sort.Sort(t): some permutation of t that is ordered by Less (sort.Sort
\* does not promise which one when elements compare equal)
SortOutcomes(t) ==
    { p \in { [i \in 1..Len(t) |-> t[f[i]]] : f \in Permutations(1..Len(t)) } :
        \A i, j \in 1..Len(t) : i < j => ~ Less(p[j], p[i]) }

\* a return that leaves the timeline as accumulated
DeferredSortSkipped(t) == {t}

\* if timeline != nil { sort.Sort(timeline) }
DeferredSort(t) == IF t # <<>> THEN SortOutcomes(t) ELSE {t}

Return ==
    /\ callerPc = "return"
    /\ cancelClosed' = TRUE
    /\ startedAtCancel' = started
    /\ timeline' \in DeferredSort(timeline)
    /\ callerPc' = "returned"
    /\ UNCHANGED <<mergeVars, cacheVars, auditVars, runVars, envVars, argVars, rateLimit, err, prodVars, inCh, inClosed,
                   outClosed, workerVars, emitted, started, finished, consumed,
                   received, firstErr, accumulated>>

(***************************************************************************)
(* Specification of one call followersTimeline(userID, since)              *)
(***************************************************************************)
\* the follower list 1..n
FollowerList(n) == [i \in 1..n |-> i]

\* the state of a round before followersTimeline is entered
RoundIdle ==
    /\ ids = <<>>
    /\ timeline = <<>>
    /\ rateLimit = Nil
    /\ err = Nil
    /\ prodPc = "off"
    /\ prodM = 0
    /\ inCh = Empty
    /\ inClosed = FALSE
    /\ outClosed = FALSE
    /\ cancelClosed = FALSE
    /\ wPc = [w \in Workers |-> "off"]
    /\ wBatch = [w \in Workers |-> Empty]
    /\ wResult = [w \in Workers |-> Nil]
    /\ emitted = <<>>
    /\ started = 0
    /\ finished = 0
    /\ startedAtCancel = -1
    /\ consumed = {}
    /\ received = 0
    /\ firstErr = Nil
    /\ accumulated = 0

\* Bot.Run is not running
RunOff ==
    /\ runPc = "off"
    /\ latestRateLimit = ZeroObservation
    /\ latestCreatedAt = 0
    /\ maxWait = 0
    /\ runErr = Nil
    /\ rounds = 0

\* the service: n followers for some n of counts; some of the followers
\* among candidates have a most recent status, with a CreatedAt of raws
ServiceInit(counts, candidates, raws) ==
    \E n \in counts :
        /\ followers = FollowerList(n)
        /\ \E P \in SUBSET (candidates \cap 1..n) : posts \in [P -> raws]

\* a new Bot: the cache is the zero idsStore, no endpoint call was made
CacheOff ==
    /\ store = ZeroStore
    /\ idsCalls = 0
    /\ lastSet = Nil
    /\ picked = NoPick
    /\ storeOps = 0
    /\ loopI = 0

\* nothing observed yet
AuditOff ==
    /\ carried = {}
    /\ lookedUp = <<>>
    /\ dispatched = <<>>

\* no merge is being tried
MergeOff ==
    mrg = [pc |-> "off", running |-> ZeroObservation, a |-> ZeroObservation,
           b |-> ZeroObservation, ab |-> ZeroObservation,
           ba |-> ZeroObservation]

\* a direct call followersTimeline(userID, snc), as TestFollowersTimeline makes
RoundInit(counts, candidates, raws, snc) ==
    /\ MergeOff
    /\ ServiceInit(counts, candidates, raws)
    /\ now = Now0
    /\ since = snc
    /\ callerPc = "start"
    /\ RoundIdle
    /\ RunOff
    /\ CacheOff
    /\ AuditOff

\* the threshold of the direct call: 6 minutes ago
Since0 == Now0 - 6 * 60
\* creation instants around the threshold, and text that does not parse
RoundRaws == {RawOf(t) : t \in (Since0 - 1)..(Since0 + MaxAhead)} \cup {BadRaw}
\* the followers that may have a status: two of the first batch and the
\* first of the second
RoundPosters == {1, 2, BatchSize + 1}
\* the rate-limit headers a lookup response may carry
RoundHeaders == {Ptr(Observation(10, 15, Now0 + InitialWindow))}

Init == RoundInit({0, 1, MaxFollowers}, RoundPosters, RoundRaws, Since0)

RoundNext(headers) ==
    \/ FollowersIDsFails(1)
    \/ \E d \in NoShuffle(Len(store.ids)) : FollowersIDsReturns(d, 1)
    \/ ProducerSend
    \/ ProducerClose
    \/ \E w \in Workers : WorkerPull(w)
    \/ \E w \in Workers, h \in headers : LookupReturns(w, h)
    \/ \E w \in Workers : LookupFails(w)
    \/ \E w \in Workers : WorkerCancelled(w)
    \/ \E w \in Workers : WorkerRangeEnds(w)
    \/ CloserCloses
    \/ \E w \in Workers : CollectError(w)
    \/ \E w \in Workers : CollectResult(w)
    \/ CollectEnds
    \/ Return

Next == RoundNext(RoundHeaders)

Spec == Init /\ [][Next]_vars

(***************************************************************************)
(* A round of up to 3 batches whose responses carry different rate-limit   *)
(* headers, or none.                                                       *)
(***************************************************************************)
\* observations of one bucket at instants shortly after the start
LimitObservations ==
    {Observation(180, r, Now0 + t) :
        r \in 0..MaxMergeRemaining, t \in 1..MaxMergeReset}
LimitHeaders == {Nil} \cup {Ptr(o) : o \in LimitObservations}

LimitsInit == RoundInit({0, MaxRunFollowers, MaxFollowers}, {}, {}, Since0)

LimitsNext == RoundNext(LimitHeaders)

SpecLimits == LimitsInit /\ [][LimitsNext]_vars

(***************************************************************************)
(* The worker pool on 7 batches.  Every lookup succeeds; the round ends    *)
(* early when the first follower's status does not parse.                  *)
(***************************************************************************)
PoolInit == RoundInit({PoolFollowers}, {1}, {BadRaw}, Since0)

PoolNext ==
    \/ FollowersIDsFails(1)
    \/ \E d \in NoShuffle(Len(store.ids)) : FollowersIDsReturns(d, 1)
    \/ ProducerSend
    \/ ProducerClose
    \/ \E w \in Workers : WorkerPull(w)
    \/ \E w \in Workers, h \in RoundHeaders : LookupReturns(w, h)
    \/ \E w \in Workers : WorkerCancelled(w)
    \/ \E w \in Workers : WorkerRangeEnds(w)
    \/ CloserCloses
    \/ \E w \in Workers : CollectResult(w)
    \/ CollectEnds
    \/ Return

SpecPool == PoolInit /\ [][PoolNext]_vars

(***************************************************************************)
(* A round of 4 batches whose lookups may fail, with the scheduling of the *)
(* Go runtime: a goroutine that can take a step takes one, and a lookup    *)
(* call that was issued returns.                                           *)
(***************************************************************************)
SinkInit == RoundInit({SinkFollowers}, {}, {}, Since0)

SpecSink == SinkInit /\ [][Next]_vars /\ WF_vars(Next)

(***************************************************************************)
(* The batch producer alone, on every list of 0..MaxBatchFollowers         *)
(* identifiers, with a receiver that takes each batch it offers.           *)
(***************************************************************************)
\* a receive on in, as the producer sees it
BatchReceived ==
    /\ inCh # Empty
    /\ inCh' = Empty
    /\ UNCHANGED <<mergeVars, cacheVars, auditVars, runVars, envVars, argVars, callerVars, prodVars, inClosed,
                   outClosed, cancelClosed, workerVars, histVars>>

BatchInit == RoundInit(0..MaxBatchFollowers, {}, {}, Since0)

BatchNext ==
    \/ \E d \in NoShuffle(Len(store.ids)) : FollowersIDsReturns(d, 1)
    \/ ProducerSend
    \/ ProducerClose
    \/ BatchReceived

SpecBatch == BatchInit /\ [][BatchNext]_vars

(***************************************************************************)
(* Bot.Run                                                                 *)
(***************************************************************************)
\* a wait without the floor of 10 seconds
WaitingTimeNoFloor(prev, cur, t) ==
    LET diff == prev.Remaining - cur.Remaining
    IN IF diff > 0
       THEN LET quot == cur.Remaining \div diff
                num == IF quot = 0 THEN quot + 1 ELSE quot
            IN (cur.Reset - t) \div num
       ELSE MinWait

\* a watermark taken from the first status of the timeline
WatermarkOfFirst(tl, latest) ==
    IF Len(tl) > 0
    THEN IF tl[1].CreatedAt.layout = "RubyDate" THEN tl[1].CreatedAt.sec ELSE 0
    ELSE latest

\* Go's integer division, which truncates toward zero (b > 0)
GoDiv(a, b) == IF a >= 0 THEN a \div b ELSE -((-a) \div b)

\* "calculate waiting time": the wait after an iteration that found the
\* observation cur, the previous one being prev, at clock reading t
WaitingTime(prev, cur, t) ==
    LET diff == prev.Remaining - cur.Remaining
    IN IF diff > 0
       THEN LET quot == GoDiv(cur.Remaining, diff)
                num == IF quot = 0 THEN quot + 1 ELSE quot
                wait == GoDiv(cur.Reset - t, num)
            IN IF wait > MinWait THEN wait ELSE MinWait
       ELSE MinWait

\* "udpate latestCreatedAt": the watermark after a round that returned tl
Watermark(tl, latest) ==
    IF Len(tl) > 0 THEN CreatedAtTime(tl[Len(tl)]).time ELSE latest

\* the statuses of tl whose creation time does not parse
Unparseable(tl) == SelectSeq(tl, LAMBDA t : CreatedAtTime(t).err # Nil)

\* for _, tweet := range timeline { createdAt, err := tweet.CreatedAtTime();
\* if err != nil { return err }; ... bot.mentioner.Mention(tweet) ... }:
\* the statuses passed to the mentioner in round r, in order: those before
\* the first one that does not parse
Mentioned(tl, r) ==
    LET bad == {k \in 1..Len(tl) : CreatedAtTime(tl[k]).err # Nil}
        n == IF bad = {} THEN Len(tl)
             ELSE (CHOOSE k \in bad : \A j \in bad : k <= j) - 1
    IN [k \in 1..n |->
           [round |-> r, ID |-> tl[k].ID, CreatedAt |-> tl[k].CreatedAt]]

\* rateLimitStatusResult, err := bot.rateLimitStatus(...); if err != nil { return err }
RunProbeFails ==
    /\ runPc = "probe"
    /\ runErr' = <<"rateLimitStatus", 0>>
    /\ runPc' = "stopped"
    /\ UNCHANGED <<mergeVars, cacheVars, auditVars, envVars, roundVars, latestRateLimit, latestCreatedAt,
                   maxWait, rounds>>

\* latestRateLimit := ...Users["/users/lookup"]
\* latestCreatedAt := time.Now().Add(-15 * time.Minute)
RunProbe(obs) ==
    /\ runPc = "probe"
    /\ latestRateLimit' = obs
    /\ latestCreatedAt' = now - InitialWindow
    /\ runPc' = "loop"
    /\ UNCHANGED <<mergeVars, cacheVars, auditVars, envVars, roundVars, maxWait, runErr, rounds>>

\* a call of followersTimeline starts: the state of a round before
\* followersIDs is called
RoundReset ==
    /\ callerPc' = "start"
    /\ ids' = <<>>
    /\ timeline' = <<>>
    /\ rateLimit' = Nil
    /\ err' = Nil
    /\ prodPc' = "off"
    /\ prodM' = 0
    /\ inCh' = Empty
    /\ inClosed' = FALSE
    /\ outClosed' = FALSE
    /\ cancelClosed' = FALSE
    /\ wPc' = [w \in Workers |-> "off"]
    /\ wBatch' = [w \in Workers |-> Empty]
    /\ wResult' = [w \in Workers |-> Nil]
    /\ emitted' = <<>>
    /\ started' = 0
    /\ finished' = 0
    /\ startedAtCancel' = -1
    /\ consumed' = {}
    /\ received' = 0
    /\ firstErr' = Nil
    /\ accumulated' = 0
    /\ carried' = {}
    /\ lookedUp' = <<>>

\* timeline, rateLimit, err := bot.followersTimeline(bot.userID, latestCreatedAt)
\* The call makes its own channels and goroutines: goroutines that an
\* earlier call left behind share nothing with it and are dropped here.
RunCall ==
    /\ runPc = "loop"
    /\ rounds < MaxRounds
    /\ rounds' = rounds + 1
    /\ runPc' = "fetch"
    /\ since' = latestCreatedAt
    /\ RoundReset
    /\ UNCHANGED <<mergeVars, cacheVars, dispatched, envVars, latestRateLimit, latestCreatedAt,
                   maxWait, runErr>>

\* a loop that goes on to the next round after a failed call
RunFetchRetries ==
    /\ runPc = "fetch"
    /\ callerPc = "returned"
    /\ err # Nil
    /\ runPc' = "loop"
    /\ UNCHANGED <<mergeVars, cacheVars, auditVars, envVars, roundVars,
                   latestRateLimit, latestCreatedAt, maxWait, runErr, rounds>>

\* if err != nil { return err }
RunFetchFails ==
    /\ runPc = "fetch"
    /\ callerPc = "returned"
    /\ err # Nil
    /\ runErr' = err
    /\ runPc' = "stopped"
    /\ UNCHANGED <<mergeVars, cacheVars, auditVars, envVars, roundVars, latestRateLimit, latestCreatedAt,
                   maxWait, rounds>>

\* the rest of the loop body: the statuses go to the mentioner, the
\* watermark is updated, the wait is computed, latestRateLimit = *rateLimit
RunIteration ==
    /\ runPc = "fetch"
    /\ callerPc = "returned"
    /\ err = Nil
    /\ dispatched' = dispatched \o Mentioned(timeline, rounds)
    /\ IF Unparseable(timeline) # <<>>
       THEN /\ runErr' = CreatedAtTime(Unparseable(timeline)[1]).err
            /\ runPc' = "stopped"
            /\ UNCHANGED <<latestRateLimit, latestCreatedAt, maxWait>>
       ELSE /\ latestCreatedAt' = Watermark(timeline, latestCreatedAt)
            /\ maxWait' = WaitingTime(latestRateLimit, Deref(rateLimit), now)
            /\ latestRateLimit' = Deref(rateLimit)
            /\ runPc' = "sleep"
            /\ UNCHANGED runErr
    /\ UNCHANGED <<mergeVars, cacheVars, carried, lookedUp, envVars, roundVars,
                   rounds>>

\* <-time.Tick(time.Second * time.Duration(maxWait))
RunWake ==
    /\ runPc = "sleep"
    /\ now' = now + maxWait
    /\ runPc' = "loop"
    /\ UNCHANGED <<mergeVars, cacheVars, auditVars, followers, posts, roundVars, latestRateLimit,
                   latestCreatedAt, maxWait, runErr, rounds>>

\* while Run sleeps, a follower posts a status (or its most recent status
\* comes to be one with CreatedAt raw)
FollowerPosts(id, raw) ==
    /\ runPc = "sleep"
    /\ id \in Range(followers)
    /\ posts' = [i \in DOMAIN posts \cup {id} |-> IF i = id THEN raw ELSE posts[i]]
    /\ posts' # posts
    /\ UNCHANGED <<mergeVars, cacheVars, auditVars, followers, now, roundVars, runVars>>

\* the followers of the Run specification that may have a status
RunPosters == {1, BatchSize + 1}
\* creation instants around the first watermark, and text that does not parse
RunRaws ==
    {RawOf(Now0 - InitialWindow + d) : d \in 0..MaxAhead} \cup {BadRaw}
\* the answer of the rate-limit probe at clock reading t (that of the mock
\* service of the tests): the full budget, reset in 15 minutes
ProbeObservation(t) == Observation(180, 180, t + InitialWindow)
\* the observations the lookup responses carry at clock reading t: the full
\* budget, 15 calls used, and an exhausted budget whose reset instant has
\* passed
RunObservations(t) ==
    {ProbeObservation(t),
     Observation(180, 165, t + InitialWindow),
     Observation(180, 0, t - 60)}
RunHeaders(t) == {Nil} \cup {Ptr(o) : o \in RunObservations(t)}
\* the responses of one round carry the same header: any of hs for the first
\* response of the round, that of the first for the others
SameHeaders(hs) == IF carried = {} THEN hs ELSE carried

RunInit ==
    /\ MergeOff
    /\ ServiceInit({0, MaxRunFollowers}, RunPosters, RunRaws)
    /\ now = Now0
    /\ since = 0
    /\ callerPc = "idle"
    /\ RoundIdle
    /\ runPc = "probe"
    /\ latestRateLimit = ZeroObservation
    /\ latestCreatedAt = 0
    /\ maxWait = 0
    /\ runErr = Nil
    /\ rounds = 0
    /\ CacheOff
    /\ AuditOff

\* the steps of Run and of its rounds, the lookup responses carrying one of
\* headers
RunSteps(headers) ==
    \/ RunProbeFails
    \/ RunProbe(ProbeObservation(now))
    \/ RunCall
    \/ FollowersIDsFails(1)
    \/ \E d \in NoShuffle(Len(store.ids)) : FollowersIDsReturns(d, 1)
    \/ ProducerSend
    \/ ProducerClose
    \/ \E w \in Workers : WorkerPull(w)
    \/ \E w \in Workers, h \in SameHeaders(headers) : LookupReturns(w, h)
    \/ \E w \in Workers : LookupFails(w)
    \/ \E w \in Workers : WorkerCancelled(w)
    \/ \E w \in Workers : WorkerRangeEnds(w)
    \/ CloserCloses
    \/ \E w \in Workers : CollectError(w)
    \/ \E w \in Workers : CollectResult(w)
    \/ CollectEnds
    \/ Return
    \/ RunFetchFails
    \/ RunIteration
    \/ RunWake
    \/ \E id \in RunPosters, raw \in RunRaws : FollowerPosts(id, raw)

RunNext == RunSteps(RunHeaders(now))

SpecRun == RunInit /\ [][RunNext]_vars

(***************************************************************************)
(* Bot.Run against a service whose responses all carry the headers of the  *)
(* mock service of the tests.                                              *)
(***************************************************************************)
\* X-Rate-Limit-Limit 10, X-Rate-Limit-Remaining 15, reset in 15 minutes
TestHeaders(t) == {Ptr(Observation(10, 15, t + InitialWindow))}

DispatchNext == RunSteps(TestHeaders(now))

SpecDispatch == RunInit /\ [][DispatchNext]_vars

(***************************************************************************)
(* followersTimeline called several times in a row on one Bot, as the loop *)
(* of TestFollowersTimeline does, while time passes between the calls.     *)
(***************************************************************************)
\* for i := 0; i < 3; i++ { ... bot.followersTimeline("dummy", time.Now().Add(-6*time.Minute)) ... }
\* The call makes its own channels and goroutines (see RunCall).
TimelineCall ==
    /\ runPc = "off"
    /\ callerPc = "returned"
    /\ loopI + 1 < MaxCalls
    /\ loopI' = loopI + 1
    /\ since' = now - 6 * 60
    /\ RoundReset
    /\ UNCHANGED <<mergeVars, store, idsCalls, lastSet, picked, storeOps,
                   dispatched, envVars, runVars>>

\* time passes between two calls: the clock comes to read t
TimePasses(t) ==
    /\ runPc = "off"
    /\ callerPc \in {"idle", "returned"}
    /\ t > now
    /\ now' = t
    /\ UNCHANGED <<mergeVars, cacheVars, auditVars, followers, posts,
                   roundVars, runVars>>

\* the instants at which the calls are made: the start, shortly after, and
\* around the expiry instant of a list stored at the start
CachedInstants ==
    {Now0, Now0 + 1} \cup {Now0 + DefaultTTL + e : e \in 0..MaxLate}

CachedInit ==
    RoundInit(0..MaxCachedFollowers, {1}, {RawOf(Since0 + 1)}, Since0)

\* The follower lists are of one batch at most, so that no worker holds a
\* result while another fails: WorkerCancelled is never enabled here.
CachedNext ==
    \/ \E p \in 1..Pages(followers, CachedPageSize) : FollowersIDsFails(p)
    \/ \E d \in Draws(Len(store.ids)) :
          FollowersIDsReturns(d, Pages(followers, CachedPageSize))
    \/ ProducerSend
    \/ ProducerClose
    \/ \E w \in Workers : WorkerPull(w)
    \/ \E w \in Workers, h \in RoundHeaders : LookupReturns(w, h)
    \/ \E w \in Workers : LookupFails(w)
    \/ \E w \in Workers : WorkerRangeEnds(w)
    \/ CloserCloses
    \/ \E w \in Workers : CollectError(w)
    \/ \E w \in Workers : CollectResult(w)
    \/ CollectEnds
    \/ Return
    \/ TimelineCall
    \/ \E t \in CachedInstants : TimePasses(t)

SpecCached == CachedInit /\ [][CachedNext]_vars

(***************************************************************************)
(* The identifier cache on its own: setIds and pickIds called in any order *)
(* while time passes.                                                      *)
(***************************************************************************)
\* store.setIds(list, d)
StoreSetIds(list, d) ==
    /\ runPc = "off"
    /\ callerPc = "idle"
    /\ storeOps < MaxStoreOps
    /\ storeOps' = storeOps + 1
    /\ store' = SetIds(store, list, d, now)
    /\ lastSet' = Ptr([at |-> now, d |-> d])
    /\ picked' = NoPick
    /\ UNCHANGED <<mergeVars, idsCalls, loopI, auditVars, envVars, roundVars,
                   runVars>>

\* ids := store.pickIds()
StorePickIds(draws) ==
    /\ runPc = "off"
    /\ callerPc = "idle"
    /\ storeOps < MaxStoreOps
    /\ storeOps' = storeOps + 1
    /\ store' = PickIds(store, now, draws).store
    /\ picked' = Pick(now, store, PickIds(store, now, draws).ids)
    /\ UNCHANGED <<mergeVars, idsCalls, lastSet, loopI, auditVars, envVars,
                   roundVars, runVars>>

\* the lists given to setIds: up to MaxShuffled identifiers, one more than
\* the cap of pickIds, and a list that names an identifier twice
StoreLists ==
    {FollowerList(n) : n \in 0..MaxShuffled} \cup {FollowerList(maxNum + 1)}
        \cup {<<1, 1, 2>>}
\* the durations given to setIds, in seconds: the default, two seconds, and
\* one that ends before it starts
StoreDurations == {0, 2, -1}
\* the instants at which the store is used: around the expiry instants of
\* lists stored at the start
StoreInstants ==
    {Now0 + e : e \in 0..(2 + MaxLate)}
        \cup {Now0 + DefaultTTL + e : e \in 0..MaxLate}

StoreInit ==
    /\ MergeOff
    /\ followers = <<>>
    /\ posts = <<>>
    /\ now = Now0
    /\ since = Since0
    /\ callerPc = "idle"
    /\ RoundIdle
    /\ RunOff
    /\ CacheOff
    /\ AuditOff

StoreNext ==
    \/ \E list \in StoreLists, d \in StoreDurations : StoreSetIds(list, d)
    \/ \E draws \in Draws(Len(store.ids)) : StorePickIds(draws)
    \/ \E t \in StoreInstants : TimePasses(t)

SpecStore == StoreInit /\ [][StoreNext]_vars

(***************************************************************************)
(* The merge step of the collect loop on two observations a and b, in both *)
(* orders, from a running value.                                           *)
(***************************************************************************)
\* observations of one bucket: remaining counts 0..MaxMergeRemaining, reset
\* instants 1..MaxMergeReset
MergeObservations ==
    {Observation(180, r, t) : r \in 0..MaxMergeRemaining, t \in 1..MaxMergeReset}

\* the running value is the zero observation or an observation merged before
MergeInit ==
    /\ \E r \in MergeObservations \cup {ZeroObservation},
          a, b \in MergeObservations :
         mrg = [pc |-> "start", running |-> r, a |-> a, b |-> b,
                ab |-> r, ba |-> r]
    /\ followers = <<>>
    /\ posts = <<>>
    /\ now = Now0
    /\ since = Since0
    /\ callerPc = "idle"
    /\ RoundIdle
    /\ RunOff
    /\ CacheOff
    /\ AuditOff

\* the first result arrives: a in one order, b in the other
MergeFirst ==
    /\ mrg.pc = "start"
    /\ mrg' = [mrg EXCEPT !.pc = "first",
                          !.ab = MergeRateLimit(mrg.ab, mrg.a),
                          !.ba = MergeRateLimit(mrg.ba, mrg.b)]
    /\ UNCHANGED <<envVars, roundVars, runVars, cacheVars, auditVars>>

\* the second result arrives: b after a, a after b
MergeSecond ==
    /\ mrg.pc = "first"
    /\ mrg' = [mrg EXCEPT !.pc = "done",
                          !.ab = MergeRateLimit(mrg.ab, mrg.b),
                          !.ba = MergeRateLimit(mrg.ba, mrg.a)]
    /\ UNCHANGED <<envVars, roundVars, runVars, cacheVars, auditVars>>

MergeNext == MergeFirst \/ MergeSecond

SpecMerge == MergeInit /\ [][MergeNext]_vars

(***************************************************************************)
(* Properties                                                              *)
(***************************************************************************)
Returned == callerPc = "returned"
Succeeded == Returned /\ err = Nil

\* the followers whose most recent status was created strictly after since
RecentPosters ==
    {id \in DOMAIN posts \cap Range(followers) :
        posts[id].layout = "RubyDate" /\ posts[id].sec > since}

\* C1: a successful followersTimeline call returns exactly the most recent
\* statuses created strictly after since: none missing, none extra, none
\* twice; a status created at since is not returned.
C1ExactlyTheRecentStatuses ==
    Succeeded =>
        /\ Len(timeline) = Cardinality(RecentPosters)
        /\ {timeline[i].ID : i \in 1..Len(timeline)} = RecentPosters
        /\ \A i \in 1..Len(timeline) :
              /\ timeline[i].CreatedAt = posts[timeline[i].ID]
              /\ timeline[i].User = Ptr(timeline[i].ID)
              /\ timeline[i].CreatedAt.sec # since

\* three batch results were consumed, two statuses were returned and a status
\* created exactly at since was left out
C1Witness ==
    /\ Succeeded
    /\ received = 3
    /\ Len(timeline) = 2
    /\ \E id \in DOMAIN posts : posts[id] = RawOf(since)

\* C2: the timeline a successful call returns is in ascending order of
\* creation time.
C2SortedAscending ==
    Succeeded =>
        \A i \in 1..(Len(timeline) - 1) :
            timeline[i].CreatedAt.sec <= timeline[i + 1].CreatedAt.sec

\* the status of the second batch is returned first and the two statuses of
\* the first batch are returned in the reverse of their list order
C2Witness ==
    /\ Succeeded
    /\ Len(timeline) = 3
    /\ timeline[1].ID = BatchSize + 1
    /\ timeline[2].ID = 2
    /\ timeline[3].ID = 1
    /\ timeline[2].CreatedAt.sec < timeline[3].CreatedAt.sec

\* the sizes of the batches emitted so far, and their concatenation
RECURSIVE Concat(_, _)
Concat(list, slices) ==
    IF slices = <<>>
    THEN <<>>
    ELSE SliceSeq(list, Head(slices)) \o Concat(list, Tail(slices))

\* C3: on a list of N identifiers the producer emits ceil(N/100) batches
\* whose concatenation is the list; every batch has between 1 and 100
\* identifiers, the last one N mod 100 (100 when N is a positive multiple of
\* 100); for N = 0 it emits none.
C3Batching ==
    LET N == Len(ids)
        B == Len(emitted)
    IN /\ \A k \in 1..B :
            /\ SliceLen(emitted[k]) >= 1
            /\ SliceLen(emitted[k]) <= 100
            /\ emitted[k][2] <= N
       /\ prodPc = "done" =>
            /\ B = (N + 99) \div 100
            /\ Concat(ids, emitted) = ids
            /\ N = 0 => B = 0
            /\ N > 0 =>
                 SliceLen(emitted[B]) = IF N % 100 = 0 THEN 100 ELSE N % 100

\* the producer has finished a list of 201..300 identifiers that is not a
\* multiple of 100
C3Witness ==
    /\ prodPc = "done"
    /\ Len(emitted) = 3
    /\ Len(ids) % 100 # 0

\* C4: when the caller has received an error result, followersTimeline
\* returns that error with a nil timeline and a nil observation, whatever
\* was accumulated before.
C4FirstErrorReturned ==
    (Returned /\ firstErr # Nil) =>
        /\ err = firstErr
        /\ timeline = <<>>
        /\ rateLimit = Nil

\* an error was received after statuses had been accumulated
C4Witness ==
    /\ Returned
    /\ firstErr # Nil
    /\ accumulated > 0

\* C5 (as claimed): once cancel is closed no further lookup call is started.
C5NoLookupAfterCancel ==
    cancelClosed => started = startedAtCancel

\* every task of the round has terminated (or was never started)
AllTasksDone ==
    /\ prodPc \in {"off", "done"}
    /\ \A w \in Workers : wPc[w] \in {"off", "done"}
    /\ prodPc = "done" => outClosed

\* C6 (as claimed): a round never comes to rest with a task still blocked:
\* where no step is possible, the producer, the workers and the closer have
\* all terminated.
C6AllTasksTerminate ==
    (Returned /\ ~ ENABLED PoolNext) => AllTasksDone

\* C7: at most 5 lookup calls are in flight, each by a worker of its own, and
\* a worker holds at most one batch: one that no other worker holds and
\* whose result the caller has not received.
C7BoundedPool ==
    /\ started - finished <= 5
    /\ started - finished = Cardinality({w \in Workers : wPc[w] = "call"})
    /\ Len(emitted) - received <= 5 + 1
    /\ \A w \in Workers :
          /\ wPc[w] \in {"call", "send"} <=> wBatch[w] # Empty
          /\ wBatch[w] # Empty =>
               /\ wBatch[w] \in Range(emitted)
               /\ wBatch[w] \notin consumed
               /\ \A v \in Workers \ {w} : wBatch[v] # wBatch[w]

\* five calls are in flight while a sixth batch waits on the channel
C7Witness ==
    /\ started - finished = 5
    /\ inCh # Empty
    /\ Len(emitted) = 6

\* the wait the claim states, for the previous remaining count p, the current
\* observation cur and the clock reading t
ClaimedWait(p, cur, t) ==
    LET diff == p - cur.Remaining
    IN IF diff <= 0
       THEN 10
       ELSE Max(10, (cur.Reset - t) \div Max(1, cur.Remaining \div diff))

\* C8: every iteration of Run computes the wait 10 when diff <= 0 and
\* otherwise max(10, (reset - now) div max(1, remaining div diff)); the wait
\* is never below 10 seconds.
C8WaitingTime ==
    /\ [](runPc = "sleep" => maxWait >= 10)
    /\ [][(runPc = "fetch" /\ runPc' = "sleep") =>
            maxWait' = ClaimedWait(latestRateLimit.Remaining, Deref(rateLimit),
                                   now)]_vars

\* from 180 remaining to 165 remaining with the reset 900 seconds ahead the
\* wait is 81 seconds
C8Witness ==
    /\ runPc = "sleep"
    /\ rateLimit = Ptr(Observation(180, 165, now + 900))
    /\ rounds = 1
    /\ maxWait = 81

\* an exhausted budget whose reset instant has passed: the wait is the floor
C8WitnessFloor ==
    /\ runPc = "sleep"
    /\ rateLimit = Ptr(Observation(180, 0, now - 60))
    /\ rounds = 1
    /\ maxWait = 10

\* C9: the watermark never decreases; an iteration whose timeline is empty
\* leaves it unchanged, one whose timeline is not sets it to the creation
\* time of the last element, which is the latest of the round and strictly
\* later than the watermark before.
C9WatermarkAdvances ==
    [][/\ latestCreatedAt' >= latestCreatedAt
       /\ (runPc = "fetch" /\ runPc' = "sleep") =>
            IF timeline = <<>>
            THEN latestCreatedAt' = latestCreatedAt
            ELSE /\ latestCreatedAt' = timeline[Len(timeline)].CreatedAt.sec
                 /\ \A i \in 1..Len(timeline) :
                       timeline[i].CreatedAt.sec <= latestCreatedAt'
                 /\ latestCreatedAt' > latestCreatedAt]_vars

\* the second round returned statuses after the first had advanced the
\* watermark, and advanced it again
C9Witness ==
    /\ rounds = 2
    /\ runPc = "sleep"
    /\ Len(timeline) = 2
    /\ since > Now0 - InitialWindow
    /\ latestCreatedAt > since

\* C10 (as claimed): merging a then b into the running value gives the same
\* observation as merging b then a.
C10MergeCommutes ==
    mrg.pc = "done" => mrg.ab = mrg.ba

\* a followersIDs call is made (followersTimeline leaves its first statement)
FollowersIDsStep == callerPc = "start" /\ callerPc' # "start"

\* C11 (as claimed): a call made while the cache entry has not expired makes
\* no call of the follower-identifier endpoint, and the first call makes
\* exactly one.
C11EndpointCalledOnce ==
    [][FollowersIDsStep =>
         /\ (lastSet # Nil /\ now <= Deref(lastSet).at + DefaultTTL) =>
                idsCalls' = idsCalls
         /\ (loopI = 0 /\ callerPc' = "collect") => idsCalls' = 1]_vars

\* C11 (amended): a call made within the time to live of a stored list that
\* is not empty makes no endpoint call and takes its identifiers from the
\* cache, which keeps its expiry; a call that finds the cache never set,
\* expired or empty drains the listing once, one endpoint call per page, and
\* stores it.  After followersIDs a call only issues lookup calls.
C11CachedWhileFreshAndNonEmpty ==
    [][/\ FollowersIDsStep =>
            IF /\ lastSet # Nil
               /\ now <= Deref(lastSet).at + DefaultTTL
               /\ store.ids # <<>>
            THEN /\ idsCalls' = idsCalls
                 /\ callerPc' = "collect"
                 /\ Len(ids') = Len(store.ids)
                 /\ Range(ids') = Range(store.ids)
                 /\ store'.expires = store.expires
            ELSE callerPc' = "collect" =>
                    /\ idsCalls' = idsCalls + Pages(followers, CachedPageSize)
                    /\ ids' = followers
                    /\ store' = [ids |-> followers, expires |-> now + DefaultTTL]
       /\ ~ FollowersIDsStep => idsCalls' = idsCalls]_vars

\* the third call in a row, made at the expiry instant itself, took the two
\* identifiers from the cache in shuffled order and looked them up; the
\* listing was drained by the first call only
C11Witness ==
    /\ loopI = 2
    /\ Succeeded
    /\ now = Now0 + DefaultTTL
    /\ idsCalls = Pages(followers, CachedPageSize)
    /\ Len(ids) = 2
    /\ ids # followers
    /\ started = 1

\* C12: a pickIds on a store that was never set returns an empty result; a
\* pickIds at t' after setIds(ids, d) at t returns an empty result exactly
\* when t' is strictly after t + d' or the stored list is empty, d' being d,
\* and 15 minutes for d = 0; a pickIds that finds the entry expired leaves
\* the store as it was.
C12EmptyIffExpiredOrEmpty ==
    picked.pc = "picked" =>
        IF lastSet = Nil
        THEN /\ picked.ids = <<>>
             /\ store = picked.before
        ELSE LET t == Deref(lastSet).at
                 d == Deref(lastSet).d
                 dd == IF d = 0 THEN 15 * 60 ELSE d
             IN /\ (picked.ids = <<>>) <=>
                       (picked.at > t + dd \/ picked.before.ids = <<>>)
                /\ picked.at > t + dd => store = picked.before

\* a list stored with duration 0 is returned by a pickIds made 15 minutes
\* later to the second
C12Witness ==
    /\ picked.pc = "picked"
    /\ lastSet # Nil
    /\ Deref(lastSet).d = 0
    /\ picked.at = Deref(lastSet).at + 15 * 60
    /\ picked.ids # <<>>

\* the number of positions of list that hold v
Count(list, v) == Cardinality({i \in DOMAIN list : list[i] = v})
\* no value is at two positions of list
Distinct(list) == Cardinality(Range(list)) = Len(list)
\* the elements of sample come from positions of list, no position twice
FromDistinctPositions(sample, list) ==
    IF Distinct(list)
    THEN Distinct(sample) /\ Range(sample) \subseteq Range(list)
    ELSE \A v \in Range(sample) : Count(sample, v) <= Count(list, v)
\* a is a rearrangement of b
IsPermutation(a, b) ==
    /\ Len(a) = Len(b)
    /\ IF Distinct(b)
       THEN Range(a) = Range(b)
       ELSE \A v \in Range(a) \cup Range(b) : Count(a, v) = Count(b, v)

\* C17: a pickIds that finds the entry not expired returns min(n, 1000)
\* identifiers of the n stored, from distinct positions of the stored list;
\* the stored list after the call is a rearrangement of the list before, and
\* the expiry instant is the same.
C17SampleOfStoredList ==
    (picked.pc = "picked" /\ picked.at <= picked.before.expires) =>
        LET n == Len(picked.before.ids)
        IN /\ Len(picked.ids) = IF n < 1000 THEN n ELSE 1000
           /\ FromDistinctPositions(picked.ids, picked.before.ids)
           /\ picked.ids = SubSeq(store.ids, 1, Len(picked.ids))
           /\ IsPermutation(store.ids, picked.before.ids)
           /\ store.expires = picked.before.expires

\* 1000 of 1001 stored identifiers were returned, and the stored list was
\* rearranged
C17Witness ==
    /\ picked.pc = "picked"
    /\ Len(picked.before.ids) = 1001
    /\ Len(picked.ids) = 1000
    /\ store.ids # picked.before.ids

\* every worker has exited and the closer has closed out
WorkersGone == (\A w \in Workers : wPc[w] = "done") /\ outClosed

\* C13: once followersTimeline has returned (the workers having been
\* started), every worker exits and out is closed; out is closed only when
\* every worker has exited, so no worker sends on it afterwards, and once
\* closed no worker is ever seen at work again.
C13NoWorkerStuckOnOut ==
    /\ (Returned /\ prodPc # "off") ~> WorkersGone
    /\ [](outClosed => \A w \in Workers : wPc[w] = "done")
    /\ [][(outClosed' # outClosed) =>
             (~ outClosed /\ \A w \in Workers : wPc[w] = "done")]_vars

\* the call returned on an error while two workers held results that nobody
\* would receive; they exited on cancel and out was closed
C13Witness ==
    /\ Returned
    /\ err # Nil
    /\ WorkersGone
    /\ finished - received >= 2

\* the position in tl of the status of follower id
PositionOf(tl, id) == CHOOSE k \in 1..Len(tl) : tl[k].ID = id

\* C14 (as claimed): the sort before the return keeps statuses of equal
\* creation time in the order in which they were accumulated.
C14SortIsStable ==
    [][(callerPc = "return" /\ callerPc' = "returned") =>
         \A i, j \in 1..Len(timeline) :
             (i < j /\ CreatedAtTime(timeline[i]).time
                           = CreatedAtTime(timeline[j]).time) =>
                 PositionOf(timeline', timeline[i].ID)
                     < PositionOf(timeline', timeline[j].ID)]_vars

\* the observations the lookup responses of the round carried
CarriedObservations == {Deref(h) : h \in carried \ {Nil}}

\* C15: the observation a successful call returns is not nil and is one of
\* the observations the responses of the round carried, whole (so the one
\* they all carried, if they carried the same), or the zero observation when
\* none carried one.
C15ReturnedObservation ==
    Succeeded =>
        /\ rateLimit # Nil
        /\ IF CarriedObservations = {}
           THEN Deref(rateLimit) = ZeroObservation
           ELSE Deref(rateLimit) \in CarriedObservations

\* two responses carried observations that differ in both fields, and the
\* call returned the one with more calls remaining
C15Witness ==
    /\ Succeeded
    /\ received = 2
    /\ \E a, b \in CarriedObservations :
          /\ a.Remaining < b.Remaining
          /\ a.Reset < b.Reset
          /\ CarriedObservations = {a, b}
          /\ Deref(rateLimit) = b

\* what Run keeps from one iteration to the next, and what it has done
RunProgress == <<latestCreatedAt, latestRateLimit, rounds, dispatched>>

\* C16: Run has stopped exactly when it has returned an error; it stops only
\* on a failed probe, a failed followersTimeline call or a creation time that
\* does not parse, with that error; a failed call is followed by nothing but
\* the stop; the stop on a failed probe or call dispatches no status and
\* updates neither the watermark nor the last observation; and after the stop
\* no status is dispatched, nothing is updated and no round is started.
C16RunStopsOnError ==
    /\ [](runPc = "stopped" <=> runErr # Nil)
    /\ [][(runPc # "stopped" /\ runPc' = "stopped") =>
            /\ \/ runPc = "probe" /\ runErr' = <<"rateLimitStatus", 0>>
               \/ /\ runPc = "fetch"
                  /\ Returned
                  /\ err # Nil
                  /\ runErr' = err
                  /\ dispatched' = dispatched
               \/ /\ runPc = "fetch"
                  /\ Succeeded
                  /\ Unparseable(timeline) # <<>>
                  /\ runErr' = CreatedAtTime(Unparseable(timeline)[1]).err
            /\ UNCHANGED <<latestCreatedAt, latestRateLimit, rounds>>]_vars
    /\ [][(runPc = "fetch" /\ Returned /\ err # Nil /\ runVars' # runVars) =>
            runPc' = "stopped"]_vars
    /\ [][runPc = "stopped" =>
            (runPc' = "stopped" /\ runErr' = runErr
                 /\ RunProgress' = RunProgress)]_vars

\* Run stopped on the error of a lookup call of its second round, after it
\* had dispatched statuses of the first
C16Witness ==
    /\ runPc = "stopped"
    /\ rounds = 2
    /\ runErr # Nil
    /\ runErr[1] = "usersLookup"
    /\ dispatched # <<>>
    /\ latestCreatedAt > Now0 - InitialWindow

\* C18: a status dispatched in a later round was created strictly after
\* every status dispatched in an earlier round, so none is dispatched in two
\* rounds.
C18LaterRoundsStrictlyLater ==
    \A i, j \in 1..Len(dispatched) :
        dispatched[i].round < dispatched[j].round =>
            /\ CreatedAtTime(dispatched[i]).time < CreatedAtTime(dispatched[j]).time
            /\ <<dispatched[i].ID, dispatched[i].CreatedAt>>
                   # <<dispatched[j].ID, dispatched[j].CreatedAt>>

\* the second round dispatched a new status of a follower whose earlier
\* status the first round had dispatched, and no other status of the service
C18Witness ==
    /\ runPc = "sleep"
    /\ rounds = 2
    /\ Cardinality(DOMAIN posts) = 2
    /\ \E i, j \in 1..Len(dispatched) :
          /\ dispatched[i].round = 1
          /\ dispatched[j].round = 2
          /\ dispatched[i].ID = dispatched[j].ID
    /\ Cardinality({k \in 1..Len(dispatched) : dispatched[k].round = 2}) = 1

\* the collect loop has ended on the close of out
LoopBroken == callerPc \in {"return", "returned"} /\ err = Nil /\ prodPc # "off"

\* C19: when the collect loop of a round without errors ends on the close of
\* out, every batch the producer emitted was received by a worker once and in
\* emission order, one lookup call was made and has returned for each of the
\* ceil(N/100) batches, and the caller has received the result of each once.
C19EachBatchOnce ==
    LoopBroken =>
        /\ prodPc = "done"
        /\ Len(emitted) = (Len(ids) + 99) \div 100
        /\ Cardinality(Range(emitted)) = Len(emitted)
        /\ lookedUp = emitted
        /\ started = Len(emitted)
        /\ finished = started
        /\ received = started
        /\ consumed = Range(emitted)
        /\ \A w \in Workers : wPc[w] = "done" /\ wBatch[w] = Empty
        /\ outClosed

\* a round of 7 batches ended without error
C19Witness ==
    /\ Succeeded
    /\ Len(emitted) = 7
    /\ received = 7
    /\ Len(lookedUp) = 7

====
